---- MODULE Spec2Model ----
(***************************************************************************)
(* A model of the libSQL DiskANN sidecar index (vector_diskann.c) and of   *)
(* the vector codec it rests on (vector.c).                                *)
(*                                                                         *)
(* The index file is modelled byte for byte: fileData maps a byte offset   *)
(* to the byte stored there (an offset below fileLen that is not in the    *)
(* domain holds 0), so that overlapping and misaligned block writes read   *)
(* back exactly as the operating system would return them.                 *)
(*                                                                         *)
(* Numbers: TLC's integers are 32-bit, so a u64 that is read back from     *)
(* the disk (a node id) is kept as its 8 little-endian bytes, the magic    *)
(* number likewise, and an f32 is kept as its IEEE-754 bit pattern.        *)
(***************************************************************************)
EXTENDS Integers, Sequences, FiniteSets, TLC

(***************************************************************************)
(* Program constants                                                       *)
(***************************************************************************)
DISKANN_BLOCK_SIZE == 4096

DISKANN_BLOCK_SIZE_SHIFT == 9

VECTOR_TYPE_F32 == 0

VECTOR_METADATA_SIZE == 8

NEIGHBOUR_METADATA_SIZE == 16

MAX_NEIGHBOURS == 10

SEARCH_WIDTH == 10

HEADER_VECTOR_DIMS == 3

SIZEOF_HEADER == 32

SQLITE_OK == 0

SQLITE_NOMEM == 7

MAX_VECTOR_SZ == 16000

MAX_FLOAT_CHAR_SZ == 1024

SIZEOF_FLOAT == 4

\* 0x4e4e416b736944, 'DiskANN', as the 8 bytes an i64 holds on a little-endian host
DISKANN_MAGIC == <<68, 105, 115, 107, 65, 78, 78, 0>>

\* The failures sqlite3OsWrite reports (sqlite3.h): SQLITE_FULL
WriteErrors == {13}

\* The failures sqlite3OsRead reports (sqlite3.h): SQLITE_IOERR_READ
ReadErrors == {266}

(***************************************************************************)
(* Bounds of the model                                                     *)
(***************************************************************************)
\* The number of inserts that get as far as the write of their block
MaxInserts == 2

\* The rows handed to insert: a rowid and a vector, its elements as f32 bit
\* patterns (0 is 0.0, 1065353216 is 1.0, 1073741824 is 2.0): [1,0,0] and
\* [0,1,0] of the declared dimension, and [1,2], which is shorter
Inputs ==
  { [id |-> 7, vec |-> [len |-> 3, data |-> <<1065353216, 0, 0>>]],
    [id |-> 8, vec |-> [len |-> 3, data |-> <<0, 1065353216, 0>>]],
    [id |-> 9, vec |-> [len |-> 2, data |-> <<1065353216, 1073741824>>]] }

\* What a field that diskAnnOpenIndex never assigns may hold (sqlite3_malloc
\* does not clear memory): zero, or what an earlier allocation left there
UninitValues == {0, 4096}

(***************************************************************************)
(* Byte codec (vector.c)                                                   *)
(***************************************************************************)
RECURSIVE Pow(_, _)
Pow(b, e) == IF e = 0 THEN 1 ELSE b * Pow(b, e - 1)

\* (num >> 8k) & 0xFF
ByteOf(num, k) == (num \div Pow(256, k)) % 256

serializeU32(num) == <<ByteOf(num, 0), ByteOf(num, 1), ByteOf(num, 2), ByteOf(num, 3)>>

\* mem is a sequence of at least 4 bytes
deserializeU32(mem) == mem[4] * 16777216 + mem[3] * 65536 + mem[2] * 256 + mem[1]

serializeF32(num) == <<ByteOf(num, 0), ByteOf(num, 1), ByteOf(num, 2), ByteOf(num, 3)>>

deserializeF32(mem) == mem[1] + mem[2] * 256 + mem[3] * 65536 + mem[4] * 16777216

\* A u64 or i64 that fits the model's integers, as its 8 little-endian bytes
U64Bytes(num) == [k \in 1..8 |-> IF k <= 4 THEN ByteOf(num, k - 1) ELSE 0]

\* The value of 8 little-endian bytes whose upper four are zero
U64Value(b) == b[1] + b[2] * 256 + b[3] * 65536 + b[4] * 16777216

(***************************************************************************)
(* Byte buffers: a function from 0-based offsets to bytes; an offset that  *)
(* is not in the domain holds 0 (memset)                                   *)
(***************************************************************************)
BufGet(buf, i) == IF i \in DOMAIN buf THEN buf[i] ELSE 0

BufPut(buf, off, bytes) ==
  [i \in (DOMAIN buf) \cup (off .. (off + Len(bytes) - 1)) |->
     IF i >= off /\ i < off + Len(bytes) THEN bytes[i - off + 1] ELSE buf[i]]

BufSlice(buf, off, n) == [k \in 1..n |-> BufGet(buf, off + k - 1)]

EmptyBuf == [i \in {} |-> 0]

RECURSIVE ConcatAll(_)
ConcatAll(ss) == IF ss = <<>> THEN <<>> ELSE Head(ss) \o ConcatAll(Tail(ss))

(***************************************************************************)
(* The index file, as the I/O layer sees it                                *)
(***************************************************************************)
\* sqlite3OsWrite of the first n bytes of buf at off, when it succeeds (a write
\* that fails is taken to leave the file as it was)
FileWrite(data, len, off, buf, n) ==
  LET span == off .. (off + n - 1)
      live == {off + j : j \in {j \in DOMAIN buf : j < n /\ buf[j] # 0}}
  IN  [data |-> [i \in ((DOMAIN data) \ span) \cup live |->
                   IF i \in span THEN buf[i - off] ELSE data[i]],
       len  |-> IF off + n > len THEN off + n ELSE len]

\* sqlite3OsRead of n bytes at off: a read past the end of the file is a short
\* read and fails
FileReadOk(len, off, n) == off + n <= len

\* The buffer a successful read fills: byte j of it is byte off + j of the file
FileRead(data, off, n) ==
  [j \in {i - off : i \in {i \in DOMAIN data : i >= off /\ i < off + n}} |-> data[j + off]]

(***************************************************************************)
(* DiskAnnHeader, and its image on the disk (the struct, as a little-endian *)
(* host lays it out)                                                       *)
(***************************************************************************)
U16Bytes(num) == <<ByteOf(num, 0), ByteOf(num, 1)>>

HeaderBytes(h) ==
  h.nMagic \o U16Bytes(h.nBlockSize) \o U16Bytes(h.nVectorType)
    \o U16Bytes(h.nVectorDims) \o U16Bytes(h.similarityFunction)
    \o U64Bytes(h.entryVectorOffset) \o U64Bytes(h.firstFreeOffset)

HeaderOfBytes(b) ==
  [nMagic             |-> SubSeq(b, 1, 8),
   nBlockSize         |-> b[9] + 256 * b[10],
   nVectorType        |-> b[11] + 256 * b[12],
   nVectorDims        |-> b[13] + 256 * b[14],
   similarityFunction |-> b[15] + 256 * b[16],
   entryVectorOffset  |-> U64Value(SubSeq(b, 17, 24)),
   firstFreeOffset    |-> U64Value(SubSeq(b, 25, 32))]

blockSize(h) == h.nBlockSize * Pow(2, DISKANN_BLOCK_SIZE_SHIFT)

vectorSize(h) == 4 + h.nVectorDims * 4

maxNeighbours(h) ==
  (blockSize(h) - vectorSize(h) - VECTOR_METADATA_SIZE)
    \div (vectorSize(h) + NEIGHBOUR_METADATA_SIZE)

neighbourMetadataOffset(h) ==
  vectorSize(h) + VECTOR_METADATA_SIZE + maxNeighbours(h) * vectorSize(h)

(***************************************************************************)
(* Vectors and their blobs.  A Vector is [len, data]: the element count    *)
(* and the elements as f32 bit patterns (its type tag is never read by the *)
(* code modelled here).                                                    *)
(***************************************************************************)
\* The blob vector() hands out: the count, then the elements
vectorSerialize(v) ==
  [k \in 1..(4 + v.len * SIZEOF_FLOAT) |->
     IF k <= 4 THEN serializeU32(v.len)[k]
     ELSE serializeF32(v.data[((k - 5) \div SIZEOF_FLOAT) + 1])[((k - 5) % SIZEOF_FLOAT) + 1]]

\* The vector points into the blob: the count word, then the elements in place
vectorInitFromBlob(blob) ==
  LET n == deserializeU32(SubSeq(blob, 1, 4))
  IN  [len  |-> n,
       data |-> [i \in 1..n |-> deserializeF32(SubSeq(blob, 4 * i + 1, 4 * i + 4))]]

\* The bytes written into a block for a vector; their number is the result
vectorSerializeToBlob(v) ==
  serializeU32(v.len) \o ConcatAll([i \in 1..v.len |-> serializeF32(v.data[i])])

\* The vector found at the start of the buffer mem, and the bytes it takes
vectorDeserializeFromBlob(mem) ==
  LET n == deserializeU32(BufSlice(mem, 0, 4))
  IN  [vec  |-> [len  |-> n,
                 data |-> [i \in 1..n |-> deserializeF32(BufSlice(mem, 4 * i, 4))]],
       used |-> 4 + 4 * n]

\* The element a bit pattern stands for, for the patterns of the non-negative
\* whole numbers below 2^24: exponent bits \div 2^23 - 127, mantissa bits % 2^23
F32Value(bits) ==
  IF bits = 0 THEN 0
  ELSE LET e == bits \div 8388608
           m == bits % 8388608
       IN  CASE e >= 127 /\ e <= 150 -> (8388608 + m) \div Pow(2, 150 - e)

RECURSIVE DotFrom(_, _, _)
DotFrom(a, b, i) ==
  IF i > a.len THEN 0
  ELSE F32Value(a.data[i]) * F32Value(b.data[i]) + DotFrom(a, b, i + 1)

\* vectorDistanceCos(q, a) < vectorDistanceCos(q, b), in exact arithmetic: a
\* zero norm makes the distance NaN, and every comparison with NaN is false
vectorDistanceCosLess(q, a, b) ==
  LET da == DotFrom(q, a, 1)
      db == DotFrom(q, b, 1)
      na == DotFrom(a, a, 1)
      nb == DotFrom(b, b, 1)
      nq == DotFrom(q, q, 1)
      sq(x) == IF x >= 0 THEN x * x ELSE 0 - x * x
  IN  /\ nq # 0 /\ na # 0 /\ nb # 0
      /\ sq(da) * nb > sq(db) * na

(***************************************************************************)
(* Node blocks                                                             *)
(***************************************************************************)
\* A VectorNode pointer is a sequence: empty for NULL, else the node it points to
NULL == <<>>

\* The VectorNode diskAnnReadVector builds from the block it read into mem
vectorNodeOfBlock(mem, offset) ==
  LET d == vectorDeserializeFromBlob(mem)
  IN  [vec     |-> d.vec,
       id      |-> BufSlice(mem, d.used, 8),
       offset  |-> offset,
       visited |-> 0]

\* diskAnnReadVector once its assertion has passed: NULL for offset 0, for a
\* failed or short read and for a failed allocation
diskAnnReadVector(data, len, offset, fails) ==
  IF offset = 0 THEN NULL
  ELSE IF fails \/ ~FileReadOk(len, offset, DISKANN_BLOCK_SIZE) THEN NULL
  ELSE <<vectorNodeOfBlock(FileRead(data, offset, DISKANN_BLOCK_SIZE), offset)>>

\* assert( offset < pIndex->nFileSize ) in diskAnnReadVector
ReadAssertHolds(offset, fileSize) == offset = 0 \/ offset < fileSize

RECURSIVE PutNeighbourVectors(_, _, _, _)
PutNeighbourVectors(buf, off, aNeighbours, i) ==
  IF i > Len(aNeighbours) THEN buf
  ELSE PutNeighbourVectors(BufPut(buf, off, vectorSerializeToBlob(aNeighbours[i])),
                           off + Len(vectorSerializeToBlob(aNeighbours[i])),
                           aNeighbours, i + 1)

RECURSIVE PutNeighbourMetadata(_, _, _, _)
PutNeighbourMetadata(buf, off, aNeighbourMetadata, i) ==
  IF i > Len(aNeighbourMetadata) THEN buf
  ELSE PutNeighbourMetadata(
         BufPut(buf, off, aNeighbourMetadata[i].id \o U64Bytes(aNeighbourMetadata[i].offset)),
         off + NEIGHBOUR_METADATA_SIZE, aNeighbourMetadata, i + 1)

\* nNeighbours starting at the capacity of the arrays instead of 0
neighbourCountFromCapacity(visitedList) == MAX_NEIGHBOURS + Len(visitedList)

\* The nNeighbours diskAnnInsert counts on the visited list
neighbourCount(visitedList) == Len(visitedList)

\* blockData as diskAnnWriteVector fills it; id is the rowid's 8 bytes
blockImage(h, pVec, id, aNeighbours, aNeighbourMetadata, nNeighbours) ==
  LET own   == vectorSerializeToBlob(pVec)
      off   == Len(own)
      b1    == BufPut(EmptyBuf, 0, own)
      b2    == BufPut(b1, off, id)
      b3    == BufPut(b2, off + 8, U16Bytes(nNeighbours))
      b4    == PutNeighbourVectors(b3, off + 10, aNeighbours, 1)
  IN  PutNeighbourMetadata(b4, neighbourMetadataOffset(h), aNeighbourMetadata, 1)

(***************************************************************************)
(* Search context.  aCandidates holds the nodes themselves; visitedList    *)
(* is the pNext chain from its head.                                       *)
(***************************************************************************)
initSearchContext(pQuery, maxCandidates) ==
  [pQuery        |-> pQuery,
   aCandidates   |-> <<>>,
   nCandidates   |-> 0,
   maxCandidates |-> maxCandidates,
   visitedList   |-> <<>>,
   nUnvisited    |-> 0]

\* The node is stored and nUnvisited is left as it is
addCandidateUncounted(ctx, pNode) ==
  [ctx EXCEPT !.aCandidates = Append(@, pNode),
              !.nCandidates = @ + 1]

addCandidate(ctx, pNode) ==
  [ctx EXCEPT !.aCandidates = Append(@, pNode),
              !.nCandidates = @ + 1,
              !.nUnvisited  = @ + 1]

RECURSIVE ClosestFrom(_, _, _)
ClosestFrom(ctx, i, best) ==
  IF i > ctx.nCandidates THEN best
  ELSE IF /\ ctx.aCandidates[i].visited = 0
          /\ \/ best = 0
             \/ vectorDistanceCosLess(ctx.pQuery, ctx.aCandidates[i].vec,
                                      ctx.aCandidates[best].vec)
       THEN ClosestFrom(ctx, i + 1, i)
       ELSE ClosestFrom(ctx, i + 1, best)

\* The index in aCandidates of the node found, 0 for NULL
findClosestCandidate(ctx) == ClosestFrom(ctx, 1, 0)

\* The node goes on the visited list and its flag stays clear
markAsVisitedUnflagged(ctx, i) ==
  [ctx EXCEPT !.nUnvisited  = @ - 1,
              !.visitedList = <<ctx.aCandidates[i]>> \o @]

markAsVisited(ctx, i) ==
  [ctx EXCEPT !.aCandidates[i].visited = 1,
              !.nUnvisited  = @ - 1,
              !.visitedList = <<[ctx.aCandidates[i] EXCEPT !.visited = 1]>> \o @]

hasUnvisitedCandidates(ctx) == ctx.nUnvisited > 0

RECURSIVE SearchLoop(_)
SearchLoop(ctx) ==
  IF hasUnvisitedCandidates(ctx)
  THEN SearchLoop(markAsVisited(ctx, findClosestCandidate(ctx)))
  ELSE ctx

\* The context at the head of the loop of diskAnnSearch, or at its return
\* when no node was read at the entry offset
diskAnnSearchEntered(ctx, start) ==
  IF start = NULL THEN ctx ELSE addCandidate(ctx, start[1])

\* The context diskAnnSearch leaves, given the node read at the entry offset
diskAnnSearch(ctx, start) ==
  IF start = NULL THEN ctx ELSE SearchLoop(diskAnnSearchEntered(ctx, start))

(***************************************************************************)
(* VectorNodes on the heap.  A call is followed as the list of what it     *)
(* does with nodes: malloc, free, and read of a field.  A node read from   *)
(* the file is named by its offset, the node diskAnnInsert allocates for   *)
(* itself by 0 (no node is read at offset 0)                               *)
(***************************************************************************)
\* vectorNodeNew, when the allocation succeeds
vectorNodeNew(node) == <<[op |-> "malloc", node |-> node]>>

\* vectorNodeFree
vectorNodeFree(node) == <<[op |-> "free", node |-> node]>>

\* pNeighbour->id, pNeighbour->offset, pNode->pNext: a field of the node is read
nodeRead(node) == <<[op |-> "read", node |-> node]>>

\* One of the two walks diskAnnInsert makes over the visited list
visitedWalk(visitedList) ==
  [j \in 1..Len(visitedList) |-> nodeRead(visitedList[j].offset)[1]]

\* deinitSearchContext: each node of the visited list is freed, and then its
\* pNext is read to step to the next node
deinitSearchContext(visitedList) ==
  [j \in 1..(2 * Len(visitedList)) |->
     IF j % 2 = 1 THEN vectorNodeFree(visitedList[(j + 1) \div 2].offset)[1]
     ELSE nodeRead(visitedList[j \div 2].offset)[1]]

\* diskAnnInsert from vectorNodeNew to its return; start is what
\* diskAnnReadVector gave the search
insertMemory(start, visitedList) ==
  vectorNodeNew(0)
    \o (IF start = NULL THEN <<>> ELSE vectorNodeNew(start[1].offset))
    \o visitedWalk(visitedList)
    \o visitedWalk(visitedList)
    \o deinitSearchContext(visitedList)

(***************************************************************************)
(* SQL values and the parsers of vector.c                                  *)
(***************************************************************************)
\* A size_t is kept as its 8 bytes: (size_t)-1 is eight bytes of 255
SizeT(x) == IF x < 0 THEN [k \in 1..8 |-> 255] ELSE U64Bytes(x)

\* r > 0 and r < 0 for a size_t r: the comparison is unsigned
SizeTAboveZero(r) == \E k \in 1..8 : r[k] # 0

SizeTBelowZero(r) == FALSE

\* The floats that fit the buffer vectorInit allocates: MAX_VECTOR_SZ bytes
ElemCapacity == MAX_VECTOR_SZ \div SIZEOF_FLOAT

\* The terminator of a C string
NUL == "NUL"

\* A text is its characters: head, then unit repeated reps times, then tail
Text(head, unit, reps, tail) == [head |-> head, unit |-> unit, reps |-> reps, tail |-> tail]

TextLen(t) == Len(t.head) + t.reps * Len(t.unit) + Len(t.tail)

\* zStr[i]
CharAt(t, i) ==
  IF i < Len(t.head) THEN t.head[i + 1]
  ELSE IF i < Len(t.head) + t.reps * Len(t.unit)
       THEN t.unit[((i - Len(t.head)) % Len(t.unit)) + 1]
       ELSE IF i < TextLen(t) THEN t.tail[i - Len(t.head) - t.reps * Len(t.unit) + 1]
            ELSE NUL

sqlite3Isspace(c) == c \in {" "}

Digits == <<"0", "1", "2", "3", "4", "5", "6", "7", "8", "9">>

DigitValue(c) == (CHOOSE d \in 1..10 : Digits[d] = c) - 1

IsDigit(c) == \E d \in 1..10 : Digits[d] = c

RECURSIVE DecimalValue(_, _)
DecimalValue(z, n) == IF n = 0 THEN 0 ELSE 10 * DecimalValue(z, n - 1) + DigitValue(z[n])

RECURSIVE Log2(_)
Log2(x) == IF x < 2 THEN 0 ELSE 1 + Log2(x \div 2)

\* The bit pattern of the float a whole number 0 <= x < 2^24 converts to
F32Bits(x) ==
  IF x = 0 THEN 0
  ELSE (127 + Log2(x)) * 8388608 + (x - Pow(2, Log2(x))) * Pow(2, 23 - Log2(x))

\* sqlite3AtoF(z, &el, n, SQLITE_UTF8) > 0, for the first n characters of z:
\* the model's tokens are numbers exactly when they are runs of digits
sqlite3AtoFValid(z, n) == n > 0 /\ \A i \in 1..n : IsDigit(z[i])

\* (float)el for the number found: exact for up to 7 digits, infinity for 40
\* digits and more
sqlite3AtoF(z, n) ==
  CASE n <= 7  -> F32Bits(DecimalValue(z, n))
    [] n >= 40 -> 2139095040

\* blob[k - 1] for a blob of n bytes: a byte that lies past its end is
\* whatever the memory behind it holds
ByteAt(blob, n, k, junk) == IF k <= n THEN blob[k] ELSE junk

\* vectorParseBlob on the bytes of a blob value (sqlite3_value_blob is NULL for
\* a blob of no bytes); what it hands back is described with ParseResult
vectorParseBlob(blob, junk) ==
  LET n   == Len(blob)
      len == deserializeU32([k \in 1..4 |-> ByteAt(blob, n, k, junk)])
      bad(msg, over) == [ret |-> SizeT(0 - 1), len |-> 0, elems |-> <<>>, err |-> msg,
                         overread |-> over, spilled |-> FALSE, textNull |-> FALSE]
  IN  IF n = 0 THEN bad("invalid vector: zero length", FALSE)
      ELSE IF len > MAX_VECTOR_SZ THEN bad("invalid vector: too large", n < 4)
      ELSE [ret      |-> SizeT(len),
            len      |-> len,
            elems    |-> [i \in 1..len |->
                            deserializeF32([k \in 1..4 |->
                              ByteAt(blob, n, 4 + (i - 1) * SIZEOF_FLOAT + k, junk)])],
            err      |-> "",
            overread |-> n < 4 + len * SIZEOF_FLOAT,
            spilled  |-> len > ElemCapacity,
            textNull |-> FALSE]

\* The locals of vectorParseText at the head of its loop.  z: the index zStr
\* points at; elBuf: the first bufidx characters of elBuf; elems: what has
\* been stored through v->data; spilled: a store went past the end of elBuf
\* or of v->data
ParserStart(z) ==
  [z |-> z, elBuf |-> <<>>, bufidx |-> 0, elems |-> <<>>, vecidx |-> 0, spilled |-> FALSE]

\* The index of the first character of t from i on that is no whitespace
RECURSIVE SkipSpace(_, _)
SkipSpace(t, i) == IF sqlite3Isspace(CharAt(t, i)) THEN SkipSpace(t, i + 1) ELSE i

\* What a parser hands back.  ret: the value returned; len, elems: v->len and
\* v->data afterwards; err: the message handed to sqlite3_result_error, or "";
\* overread: bytes past the end of the argument were read; spilled: a store
\* went past the end of a buffer; textNull: sqlite3_value_text gave no text
ParseResult(ret, len, elems, err, spilled) ==
  [ret |-> SizeT(ret), len |-> len, elems |-> elems, err |-> err,
   overread |-> FALSE, spilled |-> spilled, textNull |-> FALSE]

\* One pass of the loop of vectorParseText from the locals p on text t:
\* [next |-> the locals the loop goes on with] or [done |-> what is returned]
parseTextLoop(t, p) ==
  LET this == CharAt(t, p.z)
      q    == [p EXCEPT !.z = @ + 1]
  IN  IF sqlite3Isspace(this) THEN [next |-> q]
      ELSE IF this # "," /\ this # "]"
      THEN LET q2 == [q EXCEPT !.elBuf = Append(@, this), !.bufidx = @ + 1,
                               !.spilled = @ \/ p.bufidx >= MAX_FLOAT_CHAR_SZ]
           IN  IF q2.bufidx > MAX_FLOAT_CHAR_SZ
               THEN [done |-> ParseResult(0 - 1, 0, q2.elems, "", q2.spilled)]
               ELSE [next |-> q2]
      ELSE IF ~sqlite3AtoFValid(p.elBuf, p.bufidx)
      THEN [done |-> ParseResult(0 - 1, 0, p.elems, "", p.spilled)]
      ELSE LET q3 == [q EXCEPT !.elBuf = <<>>, !.bufidx = 0,
                               !.elems = Append(@, sqlite3AtoF(p.elBuf, p.bufidx)),
                               !.vecidx = @ + 1,
                               !.spilled = @ \/ p.vecidx >= ElemCapacity]
           IN  IF q3.vecidx >= MAX_VECTOR_SZ
               THEN [done |-> ParseResult(0 - 1, 0, q3.elems, "", q3.spilled)]
               ELSE [next |-> q3]

\* No final test for ']': the text may end anywhere
parseTextTailUnclosed(t, p) ==
  IF p.bufidx # 0 /\ ~sqlite3AtoFValid(p.elBuf, p.bufidx)
  THEN [done |-> ParseResult(0 - 1, 0, p.elems, "", p.spilled)]
  ELSE LET q == IF p.bufidx # 0
                THEN [p EXCEPT !.elems = Append(@, sqlite3AtoF(p.elBuf, p.bufidx)),
                               !.vecidx = @ + 1]
                ELSE p
       IN  [done |-> ParseResult(q.vecidx, q.vecidx, q.elems, "", q.spilled)]

\* vectorParseText once the loop has ended at character zStr[p.z]
parseTextTail(t, p) ==
  IF p.bufidx # 0 /\ ~sqlite3AtoFValid(p.elBuf, p.bufidx)
  THEN [done |-> ParseResult(0 - 1, 0, p.elems, "", p.spilled)]
  ELSE LET q == IF p.bufidx # 0
                THEN [p EXCEPT !.elems = Append(@, sqlite3AtoF(p.elBuf, p.bufidx)),
                               !.vecidx = @ + 1,
                               !.spilled = @ \/ p.vecidx >= ElemCapacity]
                ELSE p
       IN  IF p.bufidx # 0 /\ q.vecidx >= MAX_VECTOR_SZ
           THEN [done |-> ParseResult(0 - 1, 0, q.elems, "", q.spilled)]
           ELSE IF CharAt(t, p.z) # "]"
           THEN [done |-> ParseResult(0 - 1, 0, q.elems, "", q.spilled)]
           ELSE [done |-> ParseResult(q.vecidx, q.vecidx, q.elems, "", q.spilled)]

\* The loop and what follows it, for at most n more passes from s: the passes
\* are made in order, the first half of them and then the rest
RECURSIVE parseTextFrom(_, _, _)
parseTextFrom(t, s, n) ==
  IF "done" \in DOMAIN s THEN s
  ELSE IF n <= 1
       THEN IF CharAt(t, s.next.z) = NUL \/ CharAt(t, s.next.z) = "]"
            THEN parseTextTail(t, s.next)
            ELSE parseTextLoop(t, s.next)
       ELSE parseTextFrom(t, parseTextFrom(t, s, n \div 2), n - (n \div 2))

\* vectorParseText on a text value; textNull: sqlite3_value_text returns NULL
\* (it ran out of memory)
vectorParseText(t, textNull) ==
  LET i == SkipSpace(t, 0)
  IN  IF textNull THEN [ParseResult(0, 0, <<>>, "", FALSE) EXCEPT !.textNull = TRUE]
      ELSE IF CharAt(t, i) # "["
      THEN ParseResult(0 - 1, 0, <<>>, "invalid vector: doesn't start with ']':", FALSE)
      ELSE parseTextFrom(t, [next |-> ParserStart(i + 1)], TextLen(t) - i).done

\* The text vectorDeserialize hands to sqlite3_result_text for a vector of
\* len elements: '[', then per element the strlen(tmp) characters found in
\* tmp (formatF32 formats into a buffer of its own and leaves tmp as it was)
\* and ',', the last ',' (or the '[') overwritten by ']'
vectorDeserialize(len, tmp) ==
  LET w     == Len(tmp) + 1
      total == 1 + len * w
  IN  [k \in 1..total |->
         IF k = total THEN "]"
         ELSE IF k = 1 THEN "["
         ELSE IF (k - 1) % w = 0 THEN "," ELSE tmp[(k - 1) % w]]

\* vectorDistanceCos: dot, norm1 and norm2 as the loop sums them; the value
\* returned is 1.0 - dot / sqrt(norm1 * norm2), NaN when a norm is 0
vectorDistanceCos(v1, v2) ==
  [dot |-> DotFrom(v1, v2, 1), norm1 |-> DotFrom(v1, v1, 1), norm2 |-> DotFrom(v2, v2, 1)]

\* The result a function leaves in its sqlite3_context: nothing (SQL NULL),
\* an error with its message, an out-of-memory error, a blob, a text, a double
ResultNull == [kind |-> "null"]

ResultError(msg) == [kind |-> "error", msg |-> msg]

ResultNoMem == [kind |-> "nomem"]

ResultBlob(b) == [kind |-> "blob", blob |-> b]

ResultText(z) == [kind |-> "text", text |-> z]

ResultDouble(d) == [kind |-> "double", value |-> d]

\* No SQL function is running
SqlIdle ==
  [pc |-> "idle", fn |-> "none", args |-> <<>>, argi |-> 0, vecs |-> <<>>,
   rets |-> <<>>, textNull |-> FALSE, spilled |-> FALSE, result |-> ResultNull]

\* No search context under test
NoContext == initSearchContext([len |-> 0, data |-> <<>>], 0)

(***************************************************************************)
(* State                                                                   *)
(***************************************************************************)
VARIABLES
  fileData,    \* the index file: byte offset -> non-zero byte
  fileLen,     \* its size in bytes
  opened,      \* a DiskAnnIndex handle is open
  fresh,       \* ... and it was opened from an empty file
  header,      \* pIndex->header
  nFileSize,   \* pIndex->nFileSize
  debugBuild,  \* assert() is compiled in (SQLITE_DEBUG)
  last,        \* the last call made and what it came to
  log,         \* the inserts that got as far as the write of their block, oldest first
  sql,         \* the SQL function call in progress and its result
  pCtx,        \* a SearchContext on its own, or the one of the search under way
  searchPc,    \* where the search followed step by step stands
  heap         \* what the last call did with VectorNodes, oldest first

vars ==
  <<fileData, fileLen, opened, fresh, header, nFileSize, debugBuild, last, log,
    sql, pCtx, searchPc, heap>>

\* What the SQL functions and the search context leave alone
indexVars == <<fileData, fileLen, opened, fresh, header, nFileSize, debugBuild, last, log>>

NoHeader ==
  [nMagic |-> U64Bytes(0), nBlockSize |-> 0, nVectorType |-> 0, nVectorDims |-> 0,
   similarityFunction |-> 0, entryVectorOffset |-> 0, firstFreeOffset |-> 0]

\* op: the call; outcome: how it ended; rc: what diskAnnOpenIndex or diskAnnInsert
\* returned; caller: what vectorIndexInsert returned; len: the dimension of the
\* vector inserted; wrc, hrc: what the write of the block and of the header came to
Call(op, outcome, rc, caller, len, wrc, hrc) ==
  [op |-> op, outcome |-> outcome, rc |-> rc, caller |-> caller, len |-> len,
   wrc |-> wrc, hrc |-> hrc]

Init ==
  /\ fileData = EmptyBuf
  /\ fileLen = 0
  /\ opened = FALSE
  /\ fresh = FALSE
  /\ header = NoHeader
  /\ nFileSize = 0
  /\ debugBuild \in BOOLEAN
  /\ last = Call("none", "none", SQLITE_OK, 0, 0, SQLITE_OK, SQLITE_OK)
  /\ log = <<>>
  /\ sql = SqlIdle
  /\ pCtx = NoContext
  /\ searchPc = "idle"
  /\ heap = <<>>

(***************************************************************************)
(* diskAnnOpenIndex                                                        *)
(***************************************************************************)
\* The header of a new index: entryVectorOffset and firstFreeOffset are never
\* assigned and keep what the allocation held
freshHeader(entry, firstFree) ==
  [nMagic             |-> DISKANN_MAGIC,
   nBlockSize         |-> DISKANN_BLOCK_SIZE \div Pow(2, DISKANN_BLOCK_SIZE_SHIFT),
   nVectorType        |-> VECTOR_TYPE_F32,
   nVectorDims        |-> HEADER_VECTOR_DIMS,
   similarityFunction |-> 0,
   entryVectorOffset  |-> entry,
   firstFreeOffset    |-> firstFree]

\* The buffer diskAnnWriteHeader hands to sqlite3OsWrite
headerImage(h) == BufPut(EmptyBuf, 0, HeaderBytes(h))

\* The file is empty: initialise the header, write it, take one block as the size
OpenFresh ==
  /\ ~opened
  /\ fileLen = 0
  /\ \E entry \in UninitValues, firstFree \in UninitValues, rc \in {SQLITE_OK} \cup WriteErrors :
       LET h == freshHeader(entry, firstFree)
           w == FileWrite(fileData, fileLen, 0, headerImage(h), SIZEOF_HEADER)
       IN  /\ last' = Call("open", IF rc = SQLITE_OK THEN "done" ELSE "error", rc, 0, 0, SQLITE_OK, rc)
           /\ IF rc = SQLITE_OK
              THEN /\ fileData' = w.data
                   /\ fileLen' = w.len
                   /\ opened' = TRUE
                   /\ fresh' = TRUE
                   /\ header' = h
                   /\ nFileSize' = blockSize(h)
              ELSE UNCHANGED <<fileData, fileLen, opened, fresh, header, nFileSize>>
  /\ heap' = <<>>
  /\ UNCHANGED <<debugBuild, log, sql, pCtx, searchPc>>

\* The file holds something: its size is the file size, its first bytes the header
OpenExisting ==
  /\ ~opened
  /\ fileLen > 0
  /\ \E rc \in {SQLITE_OK} \cup ReadErrors :
       /\ last' = Call("open", IF rc = SQLITE_OK THEN "done" ELSE "error", rc, 0, 0, SQLITE_OK, SQLITE_OK)
       /\ IF rc = SQLITE_OK
          THEN /\ opened' = TRUE
               /\ fresh' = FALSE
               /\ header' = HeaderOfBytes(BufSlice(FileRead(fileData, 0, SIZEOF_HEADER), 0, SIZEOF_HEADER))
               /\ nFileSize' = fileLen
          ELSE UNCHANGED <<opened, fresh, header, nFileSize>>
  /\ heap' = <<>>
  /\ UNCHANGED <<fileData, fileLen, debugBuild, log, sql, pCtx, searchPc>>

diskAnnOpenIndex == OpenFresh \/ OpenExisting

(***************************************************************************)
(* diskAnnCloseIndex                                                       *)
(***************************************************************************)
diskAnnCloseIndex ==
  /\ opened
  /\ opened' = FALSE
  /\ fresh' = FALSE
  /\ header' = NoHeader
  /\ nFileSize' = 0
  /\ last' = Call("close", "done", SQLITE_OK, 0, 0, SQLITE_OK, SQLITE_OK)
  /\ heap' = <<>>
  /\ UNCHANGED <<fileData, fileLen, debugBuild, log, sql, pCtx, searchPc>>

(***************************************************************************)
(* vectorIndexInsert and diskAnnInsert                                     *)
(***************************************************************************)
\* aNeighbours and aNeighbourMetadata, filled from the visited list
neighbourVectors(visitedList) == [i \in 1..Len(visitedList) |-> visitedList[i].vec]

neighbourMetadata(visitedList) ==
  [i \in 1..Len(visitedList) |-> [id |-> visitedList[i].id, offset |-> visitedList[i].offset]]

\* What diskAnnInsert adds to nFileSize: the result of diskAnnWriteVector
fileSizeAdvance(rc, nBlockSize) == rc

\* What diskAnnInsert returns once the block and the header have been written
insertResult(wrc, hrc) == SQLITE_OK

\* What vectorIndexInsert returns, given what diskAnnInsert returned
vectorIndexInsertResult(rc) == 0

\* vectorNodeNew fails: SQLITE_NOMEM, nothing touched
InsertNoMem(v, id) ==
  /\ last' = Call("insert", "nomem", SQLITE_NOMEM, vectorIndexInsertResult(SQLITE_NOMEM),
                  v.len, SQLITE_OK, SQLITE_OK)
  /\ heap' = <<>>
  /\ UNCHANGED <<fileData, fileLen, opened, fresh, header, nFileSize, debugBuild, log, sql, pCtx,
                 searchPc>>

\* The assertion of diskAnnReadVector fails in a debug build: the process dies
\* with the handle, the file stays as it is
InsertAbort(v, id) ==
  /\ debugBuild
  /\ ~ReadAssertHolds(header.entryVectorOffset, nFileSize)
  /\ last' = Call("insert", "assert", SQLITE_OK, 0, v.len, SQLITE_OK, SQLITE_OK)
  /\ opened' = FALSE
  /\ fresh' = FALSE
  /\ header' = NoHeader
  /\ nFileSize' = 0
  /\ heap' = vectorNodeNew(0)
  /\ UNCHANGED <<fileData, fileLen, debugBuild, log, sql, pCtx, searchPc>>

\* diskAnnInsert from the search to the return; readFails, wrc and hrc are what
\* the read of the entry block, the write of the block and the write of the
\* header come to
InsertRun(v, id, readFails, wrc, hrc) ==
  LET entry   == header.entryVectorOffset
      start   == diskAnnReadVector(fileData, fileLen, entry, readFails)
      ctx     == diskAnnSearch(initSearchContext(v, SEARCH_WIDTH), start)
      aNbr    == neighbourVectors(ctx.visitedList)
      aMeta   == neighbourMetadata(ctx.visitedList)
      nNbr    == neighbourCount(ctx.visitedList)
      nBlock  == blockSize(header)
      offset  == nFileSize
      image   == blockImage(header, v, U64Bytes(id), aNbr, aMeta, nNbr)
      f1      == IF wrc = SQLITE_OK
                 THEN FileWrite(fileData, fileLen, nFileSize, image, nBlock)
                 ELSE [data |-> fileData, len |-> fileLen]
      h2      == IF entry = 0 THEN [header EXCEPT !.entryVectorOffset = offset] ELSE header
      f2      == IF entry = 0 /\ hrc = SQLITE_OK
                 THEN FileWrite(f1.data, f1.len, 0, headerImage(h2), SIZEOF_HEADER)
                 ELSE f1
      rc      == insertResult(wrc, hrc)
  IN  /\ debugBuild => ReadAssertHolds(entry, nFileSize)
      /\ readFails => (entry # 0 /\ FileReadOk(fileLen, entry, DISKANN_BLOCK_SIZE))
      /\ hrc # SQLITE_OK => entry = 0
      /\ fileData' = f2.data
      /\ fileLen' = f2.len
      /\ nFileSize' = nFileSize + fileSizeAdvance(wrc, nBlock)
      /\ header' = h2
      /\ last' = Call("insert", "done", rc, vectorIndexInsertResult(rc), v.len, wrc, hrc)
      /\ log' = Append(log, [id |-> id, vec |-> v, offset |-> offset,
                             neighbours |-> aMeta, nNeighbours |-> nNbr,
                             wrc |-> wrc, hrc |-> hrc])
      /\ heap' = insertMemory(start, ctx.visitedList)
      /\ UNCHANGED <<opened, fresh, debugBuild, sql, pCtx, searchPc>>

\* diskAnnInsert when an access outside a live allocation kills the process.
\* aCandidates: the sqlite3_malloc of initSearchContext gave NULL, and
\* addCandidate stores the node read through it.  pNext: the block is written,
\* deinitSearchContext frees the node read and then reads its pNext, and the
\* freed memory no longer holds the NULL that was there
InsertCrash(v, id, cause, wrc) ==
  LET entry   == header.entryVectorOffset
      start   == diskAnnReadVector(fileData, fileLen, entry, FALSE)
      ctx     == diskAnnSearch(initSearchContext(v, SEARCH_WIDTH), start)
      image   == blockImage(header, v, U64Bytes(id), neighbourVectors(ctx.visitedList),
                            neighbourMetadata(ctx.visitedList), neighbourCount(ctx.visitedList))
      f1      == IF cause = "pNext" /\ wrc = SQLITE_OK
                 THEN FileWrite(fileData, fileLen, nFileSize, image, blockSize(header))
                 ELSE [data |-> fileData, len |-> fileLen]
  IN  /\ debugBuild => ReadAssertHolds(entry, nFileSize)
      /\ start # NULL
      /\ cause = "aCandidates" => wrc = SQLITE_OK
      /\ fileData' = f1.data
      /\ fileLen' = f1.len
      /\ opened' = FALSE
      /\ fresh' = FALSE
      /\ header' = NoHeader
      /\ nFileSize' = 0
      /\ last' = Call("insert", "crash", SQLITE_OK, 0, v.len, wrc, SQLITE_OK)
      /\ heap' = IF cause = "pNext" THEN insertMemory(start, ctx.visitedList)
                 ELSE vectorNodeNew(0) \o vectorNodeNew(start[1].offset)
      /\ log' = IF cause = "pNext"
                THEN Append(log, [id |-> id, vec |-> v, offset |-> nFileSize,
                                  neighbours |-> neighbourMetadata(ctx.visitedList),
                                  nNeighbours |-> neighbourCount(ctx.visitedList),
                                  wrc |-> wrc, hrc |-> SQLITE_OK])
                ELSE log
      /\ UNCHANGED <<debugBuild, sql, pCtx, searchPc>>

\* vectorIndexInsert: the vector is the caller's blob, the id its rowid
vectorIndexInsert ==
  /\ opened
  /\ Len(log) < MaxInserts
  /\ \E in \in Inputs :
       LET v == vectorInitFromBlob(vectorSerialize(in.vec))
       IN  \/ InsertNoMem(v, in.id)
           \/ InsertAbort(v, in.id)
           \/ \E cause \in {"aCandidates", "pNext"}, wrc \in {SQLITE_OK} \cup WriteErrors :
                InsertCrash(v, in.id, cause, wrc)
           \/ \E readFails \in BOOLEAN,
                 wrc \in {SQLITE_OK} \cup WriteErrors,
                 hrc \in {SQLITE_OK} \cup WriteErrors :
                 InsertRun(v, in.id, readFails, wrc, hrc)

Next == diskAnnOpenIndex \/ diskAnnCloseIndex \/ vectorIndexInsert

Spec == Init /\ [][Next]_vars

(***************************************************************************)
(* Index files the engine finds on the disk when it starts: none, a file   *)
(* whose header is not an index header, and a two-node index as the file   *)
(* format lays it out (the nodes list each other, the entry is the first)  *)
(***************************************************************************)
\* A header whose magic is not 'DiskANN': the first bytes of an SQLite database
WrongMagicHeader == [freshHeader(0, 0) EXCEPT !.nMagic = <<83, 81, 76, 105, 116, 101, 32, 102>>]

\* A header with the magic and a vector type tag that is not VECTOR_TYPE_F32
WrongTypeHeader == [freshHeader(0, 0) EXCEPT !.nVectorType = 1]

\* The file that holds nothing but the header h
HeaderOnlyFile(h) == FileWrite(EmptyBuf, 0, 0, headerImage(h), SIZEOF_HEADER)

\* The header block, node 1 = [1,0,0] at 4096 and node 2 = [0,1,0] at 8192
TwoNodeFile ==
  LET h  == freshHeader(DISKANN_BLOCK_SIZE, 0)
      v1 == [len |-> 3, data |-> <<1065353216, 0, 0>>]
      v2 == [len |-> 3, data |-> <<0, 1065353216, 0>>]
      b1 == blockImage(h, v1, U64Bytes(1), <<v2>>,
                       <<[id |-> U64Bytes(2), offset |-> 2 * DISKANN_BLOCK_SIZE]>>, 1)
      b2 == blockImage(h, v2, U64Bytes(2), <<v1>>,
                       <<[id |-> U64Bytes(1), offset |-> DISKANN_BLOCK_SIZE]>>, 1)
      f0 == HeaderOnlyFile(h)
      f1 == FileWrite(f0.data, f0.len, DISKANN_BLOCK_SIZE, b1, DISKANN_BLOCK_SIZE)
  IN  FileWrite(f1.data, f1.len, 2 * DISKANN_BLOCK_SIZE, b2, DISKANN_BLOCK_SIZE)

FilesFound ==
  { [data |-> EmptyBuf, len |-> 0],
    HeaderOnlyFile(WrongMagicHeader),
    HeaderOnlyFile(WrongTypeHeader),
    TwoNodeFile }

InitFound ==
  /\ \E f \in FilesFound : fileData = f.data /\ fileLen = f.len
  /\ opened = FALSE
  /\ fresh = FALSE
  /\ header = NoHeader
  /\ nFileSize = 0
  /\ debugBuild \in BOOLEAN
  /\ last = Call("none", "none", SQLITE_OK, 0, 0, SQLITE_OK, SQLITE_OK)
  /\ log = <<>>
  /\ sql = SqlIdle
  /\ pCtx = NoContext
  /\ searchPc = "idle"
  /\ heap = <<>>

SpecFound == InitFound /\ [][Next]_vars

(***************************************************************************)
(* The SQL functions vector(), vector_extract() and vector_distance_cos()  *)
(***************************************************************************)
\* The longest text of the texts tried in full
MaxTextLen == 4

Alphabet == {"[", "]", ",", " ", "1", "x"}

ShortTexts ==
  {Text(h, <<>>, 0, <<>>) : h \in UNION {[1..n -> Alphabet] : n \in 0..MaxTextLen}}

\* [1,1,...,1] with n elements
OnesText(n) == Text(<<"[">>, <<"1", ",">>, n - 1, <<"1", "]">>)

\* The dimensions around the capacity of the element buffer and around the limit
LongDims ==
  {ElemCapacity, ElemCapacity + 1, MAX_VECTOR_SZ - 1, MAX_VECTOR_SZ, MAX_VECTOR_SZ + 1}

\* [11...1] with one element of n digits
LongTokenText(n) == Text(<<"[">>, <<"1">>, n, <<"]">>)

\* The token lengths around the size of elBuf
LongTokens == {MAX_FLOAT_CHAR_SZ - 1, MAX_FLOAT_CHAR_SZ, MAX_FLOAT_CHAR_SZ + 1}

LongTexts ==
  {OnesText(n) : n \in LongDims \cup {1}} \cup {LongTokenText(n) : n \in LongTokens}

\* n elements 1.0
OnesVector(n) == [len |-> n, data |-> [i \in 1..n |-> 1065353216]]

\* The vectors whose blobs are parsed back: [1], [1,2], [2,0,1] and long ones
BlobVectors ==
  { [len |-> 1, data |-> <<1065353216>>],
    [len |-> 2, data |-> <<1065353216, 1073741824>>],
    [len |-> 3, data |-> <<1073741824, 0, 1065353216>>],
    OnesVector(ElemCapacity), OnesVector(ElemCapacity + 1), OnesVector(MAX_VECTOR_SZ) }

\* The blob of [1,2] cut short, and with bytes behind it
CutBlobs ==
  LET b == vectorSerialize([len |-> 2, data |-> <<1065353216, 1073741824>>])
  IN  {SubSeq(b, 1, n) : n \in {0, 2, 4, 8, 11}} \cup {b \o <<7, 7>>}

Blobs == {vectorSerialize(v) : v \in BlobVectors} \cup CutBlobs \cup {serializeU32(MAX_VECTOR_SZ + 1)}

TextValue(t) == [type |-> "text", text |-> t]

BlobValue(b) == [type |-> "blob", blob |-> b]

NullValue == [type |-> "null"]

ShortValues == {TextValue(t) : t \in ShortTexts} \cup {BlobValue(b) : b \in Blobs} \cup {NullValue}

LongValues == {TextValue(t) : t \in LongTexts}

\* The operands tried for vector_distance_cos
DistanceValues ==
  { TextValue(Text(<<"[", "1", ",", "2", "]">>, <<>>, 0, <<>>)),
    TextValue(Text(<<"[", "2", ",", "1", "]">>, <<>>, 0, <<>>)),
    TextValue(Text(<<"[", "1", "]">>, <<>>, 0, <<>>)),
    TextValue(Text(<<"1", ",", "2">>, <<>>, 0, <<>>)),
    TextValue(Text(<<"[", "x", "]">>, <<>>, 0, <<>>)),
    BlobValue(vectorSerialize([len |-> 2, data |-> <<1065353216, 1073741824>>])),
    BlobValue(<<>>),
    NullValue }

Calls ==
  {[fn |-> "vector", args |-> <<a>>] : a \in ShortValues \cup LongValues}
    \cup {[fn |-> "vector_extract", args |-> <<a>>] : a \in ShortValues}
    \cup {[fn |-> "vector_distance_cos", args |-> <<a, b>>] : a, b \in DistanceValues}

\* What a byte read past the end of a blob may hold
JunkBytes == {0, 1}

\* What the 12 bytes of tmp in vectorDeserialize, never written, may hold up
\* to their first zero byte
UninitTokens == {<<>>, <<"?">>}

\* The function is entered and vectorInit allocates its vectors; when an
\* allocation fails the result is the out-of-memory error.  Calls share no
\* state: each is followed from the idle state to its result
SqlCall ==
  /\ sql.pc = "idle"
  /\ \E c \in Calls, nomem \in BOOLEAN :
       sql' = IF nomem
              THEN [SqlIdle EXCEPT !.pc = "done", !.fn = c.fn, !.args = c.args,
                                   !.result = ResultNoMem]
              ELSE [SqlIdle EXCEPT !.pc = "parse", !.fn = c.fn, !.args = c.args, !.argi = 1,
                                   !.vecs = [i \in 1..Len(c.args) |-> [len |-> 0, data |-> <<>>]],
                                   !.rets = [i \in 1..Len(c.args) |-> SizeT(0)]]
  /\ UNCHANGED <<pCtx, searchPc, heap>>
  /\ UNCHANGED indexVars

\* The parser has returned r for the argument at hand
parsed(r) ==
  [sql EXCEPT !.pc = "parsed", !.rets[sql.argi] = r.ret, !.textNull = r.textNull,
              !.vecs[sql.argi] = [len |-> r.len, data |-> r.elems],
              !.result = IF r.err # "" THEN ResultError(r.err) ELSE @]

\* The process dies of a read or a write outside a buffer
crashed == [sql EXCEPT !.pc = "crash"]

\* vectorParse: by the type of the argument vectorParseBlob, vectorParseText,
\* or the error for any other type.  A parser that read or wrote outside a
\* buffer may have killed the process instead of returning
vectorParse ==
  /\ sql.pc = "parse"
  /\ LET arg == sql.args[sql.argi]
         returns(r) == \E crash \in BOOLEAN :
                         /\ crash => (r.overread \/ r.spilled)
                         /\ sql' = [(IF crash THEN crashed ELSE parsed(r))
                                       EXCEPT !.spilled = r.spilled]
     IN  CASE arg.type = "blob" ->
                \E junk \in JunkBytes :
                  LET r == vectorParseBlob(arg.blob, junk) IN returns(r)
           [] arg.type = "text" ->
                \E textNull \in BOOLEAN :
                  LET r == vectorParseText(arg.text, textNull) IN returns(r)
           [] OTHER ->
                returns(ParseResult(0 - 1, 0, <<>>,
                                    "invalid vector: not a text or blob type", FALSE))
  /\ UNCHANGED <<pCtx, searchPc, heap>>
  /\ UNCHANGED indexVars

\* vectorFunc after vectorParse: the blob of the vector when the value
\* returned is above 0
vectorFunc ==
  /\ sql.pc = "parsed"
  /\ sql.fn = "vector"
  /\ \E nomem \in BOOLEAN :
       sql' = [sql EXCEPT !.pc = "done",
                 !.result = IF SizeTAboveZero(sql.rets[sql.argi])
                            THEN IF nomem THEN ResultNoMem
                                 ELSE ResultBlob(vectorSerialize(sql.vecs[1]))
                            ELSE @]
  /\ UNCHANGED <<pCtx, searchPc, heap>>
  /\ UNCHANGED indexVars

\* vectorExtractFunc after vectorParse: the text of the vector unless the
\* value returned is below 0
vectorExtractFunc ==
  /\ sql.pc = "parsed"
  /\ sql.fn = "vector_extract"
  /\ \E nomem \in BOOLEAN, tmp \in UninitTokens :
       sql' = [sql EXCEPT !.pc = "done",
                 !.result = IF SizeTBelowZero(sql.rets[sql.argi]) THEN @
                            ELSE IF nomem THEN ResultNoMem
                            ELSE ResultText(vectorDeserialize(sql.vecs[1].len, tmp))]
  /\ UNCHANGED <<pCtx, searchPc, heap>>
  /\ UNCHANGED indexVars

\* vectorDistanceCosFunc after a vectorParse: on to the second argument, or
\* the distance when the lengths agree
vectorDistanceCosFunc ==
  /\ sql.pc = "parsed"
  /\ sql.fn = "vector_distance_cos"
  /\ sql' = IF SizeTBelowZero(sql.rets[sql.argi]) THEN [sql EXCEPT !.pc = "done"]
            ELSE IF sql.argi = 1 THEN [sql EXCEPT !.pc = "parse", !.argi = 2]
            ELSE IF sql.vecs[1].len # sql.vecs[2].len
            THEN [sql EXCEPT !.pc = "done",
                             !.result = ResultError("vectors must have the same length")]
            ELSE [sql EXCEPT !.pc = "done",
                             !.result = ResultDouble(vectorDistanceCos(sql.vecs[1], sql.vecs[2]))]
  /\ UNCHANGED <<pCtx, searchPc, heap>>
  /\ UNCHANGED indexVars

NextSql == SqlCall \/ vectorParse \/ vectorFunc \/ vectorExtractFunc \/ vectorDistanceCosFunc

\* vector.c asserts one thing, which the caller of vectorDistanceCos has just
\* tested, so both builds run alike: the release build is followed
InitSql == Init /\ ~debugBuild

SpecSql == InitSql /\ [][NextSql]_vars

(***************************************************************************)
(* A search context on its own: addCandidate and the body of the loop of   *)
(* diskAnnSearch, applied to a context initSearchContext has set up        *)
(***************************************************************************)
\* The number of addCandidate calls followed on one context
MaxAdds == 4

\* The widths the contexts are set up with
Widths == {1, 2}

\* sizeof(VectorNode) and sizeof(VectorNode*) where pointers have 8 bytes
SIZEOF_VECTOR_NODE == 48

SIZEOF_POINTER == 8

\* The pointers aCandidates has room for: it is allocated as maxCandidates
\* times the size of a node, not of a pointer
allocatedCandidates(maxCandidates) == (maxCandidates * SIZEOF_VECTOR_NODE) \div SIZEOF_POINTER

\* The nodes handed to addCandidate, as diskAnnReadVector returns them
CandidateNodes ==
  { [vec |-> [len |-> 3, data |-> <<1065353216, 0, 0>>], id |-> U64Bytes(1),
     offset |-> DISKANN_BLOCK_SIZE, visited |-> 0],
    [vec |-> [len |-> 3, data |-> <<0, 1065353216, 0>>], id |-> U64Bytes(2),
     offset |-> 2 * DISKANN_BLOCK_SIZE, visited |-> 0],
    [vec |-> [len |-> 3, data |-> <<1065353216, 1065353216, 0>>], id |-> U64Bytes(3),
     offset |-> 3 * DISKANN_BLOCK_SIZE, visited |-> 0],
    [vec |-> [len |-> 3, data |-> <<0, 0, 0>>], id |-> U64Bytes(4),
     offset |-> 4 * DISKANN_BLOCK_SIZE, visited |-> 0] }

InitCandidates ==
  /\ fileData = EmptyBuf
  /\ fileLen = 0
  /\ opened = FALSE
  /\ fresh = FALSE
  /\ header = NoHeader
  /\ nFileSize = 0
  /\ debugBuild \in BOOLEAN
  /\ last = Call("none", "none", SQLITE_OK, 0, 0, SQLITE_OK, SQLITE_OK)
  /\ log = <<>>
  /\ sql = SqlIdle
  /\ \E n \in CandidateNodes, maxCandidates \in Widths :
       pCtx = initSearchContext(n.vec, maxCandidates)
  /\ searchPc = "idle"
  /\ heap = <<>>

\* addCandidate, while the store stays inside the allocation
AddCandidate ==
  /\ pCtx.nCandidates < MaxAdds
  /\ pCtx.nCandidates < allocatedCandidates(pCtx.maxCandidates)
  /\ \E n \in CandidateNodes : pCtx' = addCandidate(pCtx, n)
  /\ UNCHANGED <<sql, searchPc, heap>>
  /\ UNCHANGED indexVars

\* The body of the loop of diskAnnSearch
VisitClosest ==
  /\ hasUnvisitedCandidates(pCtx)
  /\ pCtx' = markAsVisited(pCtx, findClosestCandidate(pCtx))
  /\ UNCHANGED <<sql, searchPc, heap>>
  /\ UNCHANGED indexVars

NextCandidates == AddCandidate \/ VisitClosest

SpecCandidates == InitCandidates /\ [][NextCandidates]_vars

(***************************************************************************)
(* The search of diskAnnInsert followed step by step on the open handle:   *)
(* searchPc is "loop" at the head of the loop of diskAnnSearch and         *)
(* "returned" once diskAnnSearch has returned                              *)
(***************************************************************************)
\* The number of inserts made on the indexes that are searched
MaxSearchInserts == 1

\* diskAnnInsert from vectorNodeNew to the head of the loop: initSearchContext,
\* the read of the entry node and, when there is one, addCandidate
diskAnnSearchStart ==
  /\ searchPc # "loop"
  /\ opened
  /\ debugBuild => ReadAssertHolds(header.entryVectorOffset, nFileSize)
  /\ \E in \in Inputs, readFails \in BOOLEAN :
       LET entry == header.entryVectorOffset
           start == diskAnnReadVector(fileData, fileLen, entry, readFails)
           ctx   == initSearchContext(vectorInitFromBlob(vectorSerialize(in.vec)), SEARCH_WIDTH)
       IN  /\ readFails => (entry # 0 /\ FileReadOk(fileLen, entry, DISKANN_BLOCK_SIZE))
           /\ pCtx' = diskAnnSearchEntered(ctx, start)
           /\ searchPc' = IF start = NULL THEN "returned" ELSE "loop"
           /\ heap' = vectorNodeNew(0)
                        \o (IF start = NULL THEN <<>> ELSE vectorNodeNew(start[1].offset))
  /\ UNCHANGED sql
  /\ UNCHANGED indexVars

\* One pass of the loop
diskAnnSearchLoop ==
  /\ searchPc = "loop"
  /\ VisitClosest

\* The loop has ended: return 0
diskAnnSearchReturn ==
  /\ searchPc = "loop"
  /\ ~hasUnvisitedCandidates(pCtx)
  /\ searchPc' = "returned"
  /\ UNCHANGED <<sql, pCtx, heap>>
  /\ UNCHANGED indexVars

\* The process dies before the loop, and the handle with it: the assertion
\* of diskAnnReadVector fails in a debug build, or aCandidates is NULL (the
\* allocation failed) and addCandidate stores the entry node through it
diskAnnSearchDies ==
  /\ searchPc # "loop"
  /\ opened
  /\ \/ debugBuild /\ ~ReadAssertHolds(header.entryVectorOffset, nFileSize)
     \/ /\ debugBuild => ReadAssertHolds(header.entryVectorOffset, nFileSize)
        /\ diskAnnReadVector(fileData, fileLen, header.entryVectorOffset, FALSE) # NULL
  /\ opened' = FALSE
  /\ fresh' = FALSE
  /\ header' = NoHeader
  /\ nFileSize' = 0
  /\ pCtx' = NoContext
  /\ searchPc' = "idle"
  /\ heap' = vectorNodeNew(0)
  /\ UNCHANGED <<fileData, fileLen, debugBuild, last, log, sql>>

NextSearch ==
  \/ searchPc # "loop" /\ diskAnnOpenIndex
  \/ searchPc # "loop" /\ diskAnnCloseIndex
  \/ searchPc # "loop" /\ Len(log) < MaxSearchInserts /\ vectorIndexInsert
  \/ diskAnnSearchStart
  \/ diskAnnSearchLoop
  \/ diskAnnSearchReturn
  \/ diskAnnSearchDies

\* A search under way takes its next step: the program runs on
SpecSearch ==
  InitFound /\ [][NextSearch]_vars /\ WF_vars(diskAnnSearchLoop \/ diskAnnSearchReturn)

(***************************************************************************)
(* Reading the file back, for the properties below                         *)
(***************************************************************************)
\* The header as the file holds it
DiskHeader == HeaderOfBytes(BufSlice(FileRead(fileData, 0, SIZEOF_HEADER), 0, SIZEOF_HEADER))

\* The node block [o, o + blockBytes) of the file, and the node read from it
BlockAt(o) == FileRead(fileData, o, DISKANN_BLOCK_SIZE)

NodeAt(o) == vectorNodeOfBlock(BlockAt(o), o)

\* The neighbour count of the block at o: the two bytes after the own vector
\* blob of ownBytes bytes and the id
StoredCount(o, ownBytes) ==
  LET c == BufSlice(BlockAt(o), ownBytes + VECTOR_METADATA_SIZE, 2)
  IN  c[1] + 256 * c[2]

\* The i-th neighbour metadata record of the block at o: the id as 8 bytes, the
\* offset as a number (-1 when it is no offset the file could hold)
StoredMetadata(o, i) ==
  LET at == neighbourMetadataOffset(DiskHeader) + (i - 1) * NEIGHBOUR_METADATA_SIZE
      b  == BufSlice(BlockAt(o), at + 8, 8)
  IN  [id     |-> BufSlice(BlockAt(o), at, 8),
       offset |-> IF b[5] = 0 /\ b[6] = 0 /\ b[7] = 0 /\ b[8] = 0 /\ b[4] < 128
                  THEN U64Value(b) ELSE 0 - 1]

\* The neighbour records the block at o lists, read with the header's layout
StoredNeighbours(o) ==
  LET m == StoredCount(o, vectorSize(DiskHeader))
      M == maxNeighbours(DiskHeader)
  IN  {StoredMetadata(o, i) : i \in 1..(IF m < M THEN m ELSE M)}

\* A whole block lies at o
HoldsBlock(o) == o > 0 /\ FileReadOk(fileLen, o, DISKANN_BLOCK_SIZE)

\* Every write of every insert so far succeeded
AllWritesOk == \A i \in 1..Len(log) : log[i].wrc = SQLITE_OK /\ log[i].hrc = SQLITE_OK

\* The handle is the one that created the file, and no write has failed
FreshAndSound == opened /\ fresh /\ AllWritesOk

\* Insert i wrote its block and no later write has touched those bytes
Whole(i) ==
  /\ log[i].wrc = SQLITE_OK
  /\ \A j \in (i + 1)..Len(log) :
       log[j].wrc = SQLITE_OK =>
         \/ log[j].offset >= log[i].offset + DISKANN_BLOCK_SIZE
         \/ log[j].offset + DISKANN_BLOCK_SIZE <= log[i].offset

\* The offsets a walk over the stored neighbour metadata reaches from a set
RECURSIVE ReachFrom(_, _)
ReachFrom(frontier, seen) ==
  IF frontier = {} THEN seen
  ELSE LET now  == seen \cup frontier
           next == {n.offset : n \in UNION {StoredNeighbours(o) : o \in frontier}}
       IN  ReachFrom({o \in next : HoldsBlock(o)} \ now, now)

Reachable ==
  IF HoldsBlock(header.entryVectorOffset)
  THEN ReachFrom({header.entryVectorOffset}, {})
  ELSE {}

(***************************************************************************)
(* Properties                                                              *)
(***************************************************************************)

\* C1: after n inserts that all succeeded on a handle opened from an empty
\* file, the file size the handle tracks is (n + 1) * blockBytes.
C1_FileSizeIsBlocksTimesInserts ==
  FreshAndSound => nFileSize = (Len(log) + 1) * blockSize(header)

\* C2: every inserted node stays stored: the inserts wrote at pairwise
\* distinct offsets, and the block at the offset of each still holds its id
\* and its vector.
C2_EveryInsertedNodeStaysStored ==
  FreshAndSound =>
    /\ \A i, j \in 1..Len(log) : i # j => log[i].offset # log[j].offset
    /\ \A i \in 1..Len(log) :
         /\ HoldsBlock(log[i].offset)
         /\ NodeAt(log[i].offset).id = U64Bytes(log[i].id)
         /\ NodeAt(log[i].offset).vec = log[i].vec

\* C3: a walk from header.entryVectorOffset over the stored neighbour metadata
\* reaches every inserted node: its offset is reached and the block there is its.
C3_WalkReachesEveryInsertedNode ==
  FreshAndSound =>
    \A i \in 1..Len(log) :
      /\ log[i].offset \in Reachable
      /\ NodeAt(log[i].offset).id = U64Bytes(log[i].id)

\* C4: every neighbour record (id, offset) stored in a node block points at an
\* offset where an insert wrote a block, and the id stored there is the
\* record's id.
C4_NeighbourRecordsPointAtTheirNodes ==
  \A i \in 1..Len(log) :
    log[i].wrc = SQLITE_OK =>
      \A n \in StoredNeighbours(log[i].offset) :
        /\ \E j \in 1..Len(log) : log[j].wrc = SQLITE_OK /\ log[j].offset = n.offset
        /\ HoldsBlock(n.offset)
        /\ NodeAt(n.offset).id = n.id

\* C5: back-links: once an insert with neighbour set N has run, the block of
\* every n in N lists (id, newOffset) among its neighbours.
C5_InsertBackLinksItsNeighbours ==
  (opened /\ AllWritesOk /\ last.op = "insert" /\ last.outcome = "done") =>
    LET new == log[Len(log)]
    IN  \A n \in {new.neighbours[k] : k \in 1..Len(new.neighbours)} :
          [id |-> U64Bytes(new.id), offset |-> new.offset] \in StoredNeighbours(n.offset)

\* C6: entryVectorOffset is 0 exactly while no node has been inserted; after
\* n >= 1 inserts it is one of blockBytes .. n * blockBytes and a block an
\* insert wrote lies there, inside the file.
C6_EntryOffsetIsZeroOrANode ==
  FreshAndSound =>
    /\ header.entryVectorOffset = 0 <=> Len(log) = 0
    /\ Len(log) >= 1 =>
         /\ \E k \in 1..Len(log) : header.entryVectorOffset = k * blockSize(header)
         /\ HoldsBlock(header.entryVectorOffset)
         /\ \E i \in 1..Len(log) : log[i].offset = header.entryVectorOffset

C8_DimensionMismatchIsRefused ==
  [][(opened /\ last'.op = "insert" /\ last'.len # header.nVectorDims) =>
       /\ last'.rc # SQLITE_OK
       /\ fileData' = fileData
       /\ fileLen' = fileLen
       /\ header' = header]_vars

\* C9: when the write of the block or of the header fails, diskAnnInsert
\* returns that error code, and nFileSize does not advance by a block.
C9_WriteErrorsAreReturned ==
  [][(last'.op = "insert" /\ last'.outcome = "done") =>
       /\ last'.wrc # SQLITE_OK => last'.rc = last'.wrc
       /\ (last'.wrc = SQLITE_OK /\ last'.hrc # SQLITE_OK) => last'.rc = last'.hrc
       /\ last'.wrc # SQLITE_OK => nFileSize' # nFileSize + blockSize(header)]_vars

\* C10: opening an empty file gives a handle whose header has the magic, block
\* size 8, type F32, entryVectorOffset 0 and firstFreeOffset 0, writes that
\* header to the file and takes blockBytes as the file size.
C10_FreshOpenInitialisesTheHeader ==
  (opened /\ fresh /\ last.op = "open") =>
    /\ header.nMagic = DISKANN_MAGIC
    /\ header.nBlockSize = 8
    /\ header.nVectorType = VECTOR_TYPE_F32
    /\ header.entryVectorOffset = 0
    /\ header.firstFreeOffset = 0
    /\ DiskHeader = header
    /\ nFileSize = DISKANN_BLOCK_SIZE

\* C11: opening a non-empty file whose header magic is not 'DiskANN' or whose
\* vector type tag is not F32 returns an error and gives no handle.
C11_OpenRefusesAForeignHeader ==
  [][(last'.op = "open" /\ fileLen > 0
        /\ (DiskHeader.nMagic # DISKANN_MAGIC \/ DiskHeader.nVectorType # VECTOR_TYPE_F32)) =>
       /\ last'.rc # SQLITE_OK
       /\ ~opened']_vars

\* C12: while no write has failed, every node offset is a multiple of
\* blockBytes: the offset each insert wrote at, header.entryVectorOffset, and
\* the offsets the inserts stored as neighbour metadata; also on a handle
\* that re-opened the file.
C12_NodeOffsetsAreBlockMultiples ==
  (opened /\ AllWritesOk /\ blockSize(header) > 0) =>
    /\ header.entryVectorOffset % blockSize(header) = 0
    /\ \A i \in 1..Len(log) :
         /\ log[i].offset % blockSize(header) = 0
         /\ \A k \in 1..Len(log[i].neighbours) :
              log[i].neighbours[k].offset % blockSize(header) = 0

\* C20: the search expands what it visits: when an insert has run, every
\* neighbour listed in the block of a node it visited, and lying in the file,
\* was visited too.
C20_SearchExpandsVisitedNodes ==
  [][(last'.op = "insert" /\ last'.outcome = "done") =>
       LET new     == log'[Len(log')]
           visited == {new.neighbours[k].offset : k \in 1..Len(new.neighbours)}
       IN  \A c \in visited :
             \A r \in StoredNeighbours(c) : HoldsBlock(r.offset) => r.offset \in visited]_vars

\* The index of the first character of t that is no whitespace, and t having
\* '[' there and no ']' anywhere
Leading(t) ==
  CHOOSE i \in 0..TextLen(t) : CharAt(t, i) # " " /\ \A j \in 0..(i - 1) : CharAt(t, j) = " "

Unclosed(t) ==
  /\ CharAt(t, Leading(t)) = "["
  /\ \A i \in 0..(TextLen(t) - 1) : CharAt(t, i) # "]"

\* vectorParse has just handed back the text argument at hand, which
\* sqlite3_value_text had given it
ParsedText ==
  sql.pc = "parsed" /\ sql.args[sql.argi].type = "text" /\ ~sql.textNull

\* C13: the blob vectorSerialize makes of a vector of 1 to 16000 elements
\* parses back to that vector: the parser returns, with the same count and
\* the same elements bit for bit.
C13_BlobRoundTrip ==
  \A v \in BlobVectors :
    (/\ sql.pc \in {"parsed", "crash"}
     /\ sql.argi = 1
     /\ sql.args[1].type = "blob"
     /\ v.len >= 1 /\ v.len <= MAX_VECTOR_SZ
     /\ Len(sql.args[1].blob) = 4 + 4 * v.len
     /\ sql.args[1].blob = vectorSerialize(v))
    => /\ sql.pc = "parsed"
       /\ sql.rets[1] = SizeT(v.len)
       /\ sql.vecs[1].len = v.len
       /\ \A i \in 1..v.len : sql.vecs[1].data[i] = v.data[i]

\* C14: a blob that declares n elements and holds fewer than 4 + 4n bytes is
\* refused: the parser returns its failure value with an error, and (not
\* having read past the end of the blob) cannot have died of the read.
C14_TruncatedBlobIsRefused ==
  (/\ sql.pc \in {"parsed", "crash"}
   /\ sql.args[sql.argi].type = "blob"
   /\ Len(sql.args[sql.argi].blob) >= 4
   /\ Len(sql.args[sql.argi].blob)
        < 4 + 4 * deserializeU32(SubSeq(sql.args[sql.argi].blob, 1, 4)))
  => /\ sql.pc = "parsed"
     /\ sql.rets[sql.argi] = SizeT(0 - 1)
     /\ sql.result.kind = "error"

\* C15: whenever vectorParseText returns for a text whose first character
\* that is no whitespace is not '[', or that starts with '[' and has no ']',
\* it returns its failure value and leaves the vector empty.
C15_TextWithoutBracketsFails ==
  (/\ ParsedText
   /\ \/ CharAt(sql.args[sql.argi].text, Leading(sql.args[sql.argi].text)) # "["
      \/ Unclosed(sql.args[sql.argi].text))
  => /\ sql.rets[sql.argi] = SizeT(0 - 1)
     /\ sql.vecs[sql.argi].len = 0

\* C15 witness: a text with '[' and no ']' was refused after an element of it
\* had been stored
C15_Witness ==
  /\ ParsedText
  /\ Unclosed(sql.args[sql.argi].text)
  /\ Len(sql.vecs[sql.argi].data) >= 1
  /\ sql.rets[sql.argi] = SizeT(0 - 1)

\* C16: vectorParseText of the empty text returns 0, an empty vector, and
\* reports no error.
C16_EmptyTextIsTheEmptyVector ==
  (/\ sql.pc = "parsed"
   /\ sql.args[sql.argi].type = "text"
   /\ TextLen(sql.args[sql.argi].text) = 0)
  => /\ sql.rets[sql.argi] = SizeT(0)
     /\ sql.vecs[sql.argi].len = 0
     /\ sql.result.kind # "error"

\* C17: when vectorParseText returns for the text [1,1,...,1] of n elements,
\* it has accepted it (returned n, the vector has n elements) if
\* 1 <= n <= 16000, and refused it with an error if n > 16000.
C17_TextDimensionLimit ==
  \A n \in LongDims \cup {1} :
    (ParsedText /\ sql.args[sql.argi].text = OnesText(n))
    => IF n <= MAX_VECTOR_SZ
       THEN sql.rets[sql.argi] = SizeT(n) /\ sql.vecs[sql.argi].len = n
       ELSE sql.rets[sql.argi] = SizeT(0 - 1) /\ sql.result.kind = "error"

\* C18: when the parse of an argument has failed, the result of vector(),
\* vector_extract() or vector_distance_cos() is an error with a message: no
\* blob, text or distance.
C18_ParseFailureIsTheResult ==
  (sql.pc = "done" /\ \E i \in 1..Len(sql.rets) : sql.rets[i] = SizeT(0 - 1))
  => sql.result.kind = "error" /\ sql.result.msg # ""

\* C19: a candidate list never holds more candidates than the capacity it
\* was set up with: addCandidate on a full list evicts instead of growing.
C19_CandidatesStayWithinCapacity ==
  pCtx.nCandidates <= pCtx.maxCandidates

\* A step that starts a search: the search steps leave the record of the
\* last call alone, open and close do not
SearchStarts ==
  /\ searchPc # "loop"
  /\ searchPc' \in {"loop", "returned"}
  /\ opened
  /\ last' = last
  /\ <<pCtx, searchPc, heap>>' # <<pCtx, searchPc, heap>>

\* The positions of aCandidates whose node has its flag clear
Unvisited(ctx) == {i \in 1..ctx.nCandidates : ctx.aCandidates[i].visited = 0}

\* C21: the search loop terminates: with entryOffset = 0 the search returns
\* at once with an empty visited list; each pass of the loop marks one
\* candidate visited that was unvisited and touches no other; the search
\* returns with no candidate left unvisited; a search in its loop returns.
C21_SearchLoopTerminates ==
  /\ [][(SearchStarts /\ header.entryVectorOffset = 0) =>
          /\ searchPc' = "returned"
          /\ pCtx'.visitedList = <<>>
          /\ pCtx'.nCandidates = 0]_vars
  /\ [][(searchPc = "loop" /\ searchPc' = "loop" /\ pCtx' # pCtx) =>
          \E i \in Unvisited(pCtx) :
            /\ Unvisited(pCtx') = Unvisited(pCtx) \ {i}
            /\ pCtx'.nCandidates = pCtx.nCandidates
            /\ Len(pCtx'.visitedList) = Len(pCtx.visitedList) + 1]_vars
  /\ [](searchPc = "returned" => Unvisited(pCtx) = {})
  /\ (searchPc = "loop") ~> (searchPc = "returned")

\* C21 witness: a search that read the entry node has returned after a pass
\* of its loop
C21_Witness ==
  /\ searchPc = "returned"
  /\ pCtx.nCandidates = 1
  /\ Len(pCtx.visitedList) = 1

\* C22: every read of a node block an insert issues is at an offset above 0
\* and below the file size the handle tracks: whenever an insert gets as far
\* as diskAnnReadVector with an entry offset that is not 0, the offset is
\* below nFileSize (the assertion holds).
C22_ReadsLieBelowTheFileSize ==
  [][(last'.op = "insert" /\ last'.outcome # "nomem" /\ header.entryVectorOffset # 0) =>
       /\ header.entryVectorOffset > 0
       /\ header.entryVectorOffset < nFileSize]_vars

\* C23: nUnvisited is the number of candidates whose flag is clear; so while
\* hasUnvisitedCandidates holds, findClosestCandidate finds a candidate, one
\* that is unvisited and that no unvisited candidate is closer to the query
\* than; the visited list holds each visited candidate once, and a pass of
\* the loop puts on it a node that was unvisited.
C23_UnvisitedCountMatchesTheFlags ==
  /\ [](/\ pCtx.nUnvisited = Cardinality(Unvisited(pCtx))
        /\ Len(pCtx.visitedList) = pCtx.nCandidates - Cardinality(Unvisited(pCtx))
        /\ hasUnvisitedCandidates(pCtx) =>
             LET c == findClosestCandidate(pCtx)
             IN  /\ c # 0
                 /\ c \in Unvisited(pCtx)
                 /\ \A i \in Unvisited(pCtx) :
                      ~vectorDistanceCosLess(pCtx.pQuery, pCtx.aCandidates[i].vec,
                                             pCtx.aCandidates[c].vec))
  /\ [][Len(pCtx'.visitedList) > Len(pCtx.visitedList) =>
          \E i \in Unvisited(pCtx) :
            /\ Unvisited(pCtx') = Unvisited(pCtx) \ {i}
            /\ pCtx'.visitedList = <<pCtx'.aCandidates[i]>> \o pCtx.visitedList]_vars

\* C23 witness: with one candidate visited, two are unvisited and the closest
\* of them is not the first
C23_Witness ==
  /\ Len(pCtx.visitedList) >= 1
  /\ pCtx.nUnvisited >= 2
  /\ \E i \in Unvisited(pCtx) : i < findClosestCandidate(pCtx)

\* The nodes the last call allocated, and how often it freed node n
NodesAllocated == {heap[j].node : j \in {k \in 1..Len(heap) : heap[k].op = "malloc"}}

TimesFreed(n) == Cardinality({j \in 1..Len(heap) : heap[j] = vectorNodeFree(n)[1]})

\* C24: when diskAnnInsert has returned, every VectorNode it allocated (its
\* own and those the search read) has been freed exactly once; and no call
\* reads a field of a node after freeing it.
C24_NodesAreFreedOnceAndNotReadAfter ==
  /\ (last.op = "insert" /\ last.outcome = "done") =>
       \A n \in NodesAllocated : TimesFreed(n) = 1
  /\ \A j \in 1..Len(heap) :
       heap[j].op = "read" =>
         \A i \in 1..(j - 1) : heap[i] # vectorNodeFree(heap[j].node)[1]

\* C25: the parsers store inside their buffers: when vectorParseText or
\* vectorParseBlob has returned, or the process has died in it, no store went
\* past the end of the element buffer of vectorInit or of the token buffer
\* of 1024 bytes, and the elements stored fit the MAX_VECTOR_SZ bytes of the
\* element buffer.
C25_ParserStoresStayInBounds ==
  /\ sql.pc \in {"parsed", "crash"} => ~sql.spilled
  /\ sql.pc = "parsed" =>
       Len(sql.vecs[sql.argi].data) * SIZEOF_FLOAT <= MAX_VECTOR_SZ

====
